---- MODULE Spec2Model ----
(***************************************************************************)
(* Transaction Coordinator of the Claudiv CLI (src/src/updater.ts).        *)
(*                                                                         *)
(* executeTransaction is an async function: it is modelled as a state      *)
(* machine whose steps are its file-system calls.  Every file-system call  *)
(* (readFile, writeFile, unlink) either succeeds or throws; which one      *)
(* happens is chosen by the environment.                                   *)
(*                                                                         *)
(* Strings are sequences of code points, file contents are sequences of    *)
(* bytes; readFile(f,'utf-8') and writeFile(f,s,'utf-8') convert between   *)
(* the two with Decode and Encode.                                         *)
(*                                                                         *)
(* The second part models the engine (src/unnamed/part_003): the watch     *)
(* loop and the one-shot run, with one pipeline per change event.  A       *)
(* pipeline runs its synchronous code to the next await without            *)
(* interruption; pipelines interleave at their awaits.                     *)
(***************************************************************************)
EXTENDS Integers, Sequences, FiniteSets, TLC

VARIABLES
  disk,           \* generated files: file name -> file state
  manifestFile,   \* content of the context manifest file (contextPath)
  manifest,       \* the in-memory ContextManifest object
  pc,             \* position of the executeTransaction call
  ops,            \* the TransactionOp objects passed in (previousContent is mutated)
  newRefs, newFacts, scopePath,   \* the other arguments of the call
  idx,            \* index of the op the for-loop of step 1 is at
  completed,      \* the `completed` array, as indices into ops
  rb,             \* position of the rollback loop in the reversed array
  error,          \* the error caught by the catch block ("none" if none)
  disk0, manifest0, manifestFile0,   \* history: state when the call started
  opsIn,          \* history: the op objects as the caller passed them
  manifestWrites, \* history: writeFile calls on contextPath in this call
  undoAttempted,  \* history: ops whose undo the rollback loop has entered
  undoFailed,     \* history: ops whose undo threw
  env,            \* the run: mode, CLAUDIV_DRY_RUN, whether a context manifest was loaded
  proc,           \* the process: "off", "watching", "running", "exit0", "exit1", "crashed"
  docs,           \* the .cdml documents under projectRoot: path -> content
  cache,          \* the Change Cache: path -> content
  events,         \* watcher events not yet delivered to their handlers
  pipes,          \* the change-event callbacks in flight
  cur,            \* the pipeline whose synchronous code is running (0: none)
  hist,           \* history of the engine
  scaf,           \* the System Scaffolder: the project tree and the run of
                  \* createSystemComponents
  fw              \* a SpecFileWatcher object and its debounced handler

eng == <<env, proc, docs, cache, events, pipes, cur, hist, scaf, fw>>

vars == <<disk, manifestFile, manifest, pc, ops, newRefs, newFacts, scopePath,
          idx, completed, rb, error, disk0, manifest0, manifestFile0, opsIn,
          manifestWrites, undoAttempted, undoFailed, eng>>

----------------------------------------------------------------------------
(* Bounds of the model *)

MaxOps == 2
MaxNewRefs == 2
MaxNewFacts == 2
MaxFacts == 3

----------------------------------------------------------------------------
(* Values *)

None == [def |-> FALSE, val |-> <<>>]
Some(v) == [def |-> TRUE, val |-> v]

NoFile == [exists |-> FALSE, data |-> <<>>]
FileOf(bytes) == [exists |-> TRUE, data |-> bytes]

Files == {"a.txt", "b.txt"}

StrX == <<120>>
StrY == <<121>>
StrO == <<111>>
BytesO == <<111>>
BytesBad == <<255>>

SeqsUpTo(S, n) == UNION {[1..k -> S] : k \in 0..n}

Max(S) == CHOOSE m \in S : \A n \in S : n <= m

Reverse(s) == [k \in 1..Len(s) |-> s[Len(s) + 1 - k]]

Range(s) == {s[k] : k \in 1..Len(s)}

IsPrefix(s, t) == Len(s) <= Len(t) /\ \A k \in 1..Len(s) : s[k] = t[k]

----------------------------------------------------------------------------
(* The 'utf-8' conversions of readFile and writeFile *)

RECURSIVE Encode(_)
Encode(s) ==
  IF s = <<>> THEN <<>>
  ELSE LET c == Head(s) IN
       (IF c < 128 THEN <<c>>
        ELSE IF c < 2048 THEN <<192 + (c \div 64), 128 + (c % 64)>>
        ELSE <<224 + (c \div 4096), 128 + ((c \div 64) % 64), 128 + (c % 64)>>)
       \o Encode(Tail(s))

IsCont(b) == b >= 128 /\ b <= 191

RECURSIVE Decode(_)
Decode(b) ==
  IF b = <<>> THEN <<>>
  ELSE LET h == Head(b) IN
       IF h < 128 THEN <<h>> \o Decode(Tail(b))
       ELSE IF h >= 194 /\ h <= 223 /\ Len(b) >= 2 /\ IsCont(b[2])
         THEN <<(h - 192) * 64 + (b[2] - 128)>> \o Decode(SubSeq(b, 3, Len(b)))
       ELSE IF h >= 224 /\ h <= 239 /\ Len(b) >= 3 /\ IsCont(b[2]) /\ IsCont(b[3])
         THEN <<(h - 224) * 4096 + (b[2] - 128) * 64 + (b[3] - 128)>>
              \o Decode(SubSeq(b, 4, Len(b)))
       ELSE <<65533>> \o Decode(Tail(b))

----------------------------------------------------------------------------
(* The context manifest *)

Ref(f, m) == [file |-> f, meta |-> m]
Fact(t) == [text |-> t, source |-> "plan"]

ScopeApp == "app"
ScopeUi == "app/ui"
ScopeMissing == "app/none"

InitManifest ==
  [global |-> [refs |-> <<>>, facts |-> <<>>],
   scopes |-> << [path |-> ScopeApp, refs |-> <<>>, facts |-> <<>>],
                 [path |-> ScopeUi, refs |-> <<>>, facts |-> <<>>] >>]

Serialize(m) == [kind |-> "cdml", doc |-> m]
Truncated == [kind |-> "truncated", doc |-> InitManifest]

\* contextManifest.scopes.find(s => s.path === scopePath): index or 0
FindScope(m, path) ==
  IF \E k \in 1..Len(m.scopes) : m.scopes[k].path = path
  THEN CHOOSE k \in 1..Len(m.scopes) :
         /\ m.scopes[k].path = path
         /\ \A j \in 1..(k - 1) : m.scopes[j].path # path
  ELSE 0

\* scope.refs.findIndex(r => r.file === ref.file): index or 0
FindRef(refs, f) ==
  IF \E k \in 1..Len(refs) : refs[k].file = f
  THEN CHOOSE k \in 1..Len(refs) :
         /\ refs[k].file = f
         /\ \A j \in 1..(k - 1) : refs[j].file # f
  ELSE 0

\* variant: a ref is pushed without looking for an existing one
PutRefAlwaysPush(refs, ref) == Append(refs, ref)

\* body of `for (const ref of newRefs)`
PutRef(refs, ref) ==
  LET existing == FindRef(refs, ref.file) IN
  IF existing >= 1 THEN [refs EXCEPT ![existing] = ref]
  ELSE Append(refs, ref)

RECURSIVE UpdateRefs(_, _)
UpdateRefs(refs, nrefs) ==
  IF nrefs = <<>> THEN refs
  ELSE UpdateRefs(PutRef(refs, Head(nrefs)), Tail(nrefs))

\* variant: the new facts are put in front of the list
PushFactsInFront(facts, nfacts) == nfacts \o facts

\* targetScope.facts.push(...newFacts)
PushFacts(facts, nfacts) == facts \o nfacts

\* variant: without `|| contextManifest.global`, facts for a scope that does
\* not exist are not recorded
UpdateManifestNoGlobal(m, nrefs, nfacts, path) ==
  LET s == FindScope(m, path)
  IN IF s >= 1
     THEN [m EXCEPT !.scopes[s].refs = UpdateRefs(@, nrefs),
                    !.scopes[s].facts = @ \o nfacts]
     ELSE m

\* steps 2 and 3 of executeTransaction
UpdateManifest(m, nrefs, nfacts, path) ==
  LET s == FindScope(m, path)
      m2 == IF s >= 1
            THEN [m EXCEPT !.scopes[s].refs = UpdateRefs(@, nrefs)]
            ELSE m
  IN IF Len(nfacts) > 0
     THEN IF s >= 1
          THEN [m2 EXCEPT !.scopes[s].facts = PushFacts(@, nfacts)]
          ELSE [m2 EXCEPT !.global.facts = PushFacts(@, nfacts)]
     ELSE m2

----------------------------------------------------------------------------
(* Transaction ops *)

WriteOp(f, c, p) == [type |-> "write", file |-> f, content |-> c, previousContent |-> p]
DeleteOp(f) == [type |-> "delete", file |-> f, content |-> None, previousContent |-> None]

OpValues ==
  {WriteOp(f, Some(c), p) : f \in Files, c \in {StrX, StrY}, p \in {None, Some(StrO)}}
  \cup {WriteOp(f, None, None) : f \in Files}
  \cup {DeleteOp(f) : f \in Files}

IsWrite(op) == op.type = "write" /\ op.content.def
IsDelete(op) == op.type = "delete"


\* the inputs of one executeTransaction call
OpsInputs == SeqsUpTo(OpValues, MaxOps)
RefValues == {Ref("a.txt", 1), Ref("a.txt", 2), Ref("b.txt", 1)}
RefsInputs == SeqsUpTo(RefValues, MaxNewRefs)
FactValues == {Fact("f1"), Fact("f2")}
FactsInputs == SeqsUpTo(FactValues, MaxNewFacts)
ScopePaths == {ScopeApp, ScopeUi, ScopeMissing}

----------------------------------------------------------------------------
(* Step 1: effect of one op on the disk and on the op object *)

\* previousContent after the `if (existsSync(op.file))` capture
Captured(d, op) ==
  IF d[op.file].exists THEN Some(Decode(d[op.file].data)) ELSE op.previousContent

\* variant: the write does not replace a file that already exists
WriteDiskKeepsExisting(d, op) ==
  IF d[op.file].exists THEN d
  ELSE [d EXCEPT ![op.file] = FileOf(Encode(op.content.val))]

\* writeFile(op.file, op.content, 'utf-8') succeeded
WriteDisk(d, op) == [d EXCEPT ![op.file] = FileOf(Encode(op.content.val))]

\* unlink(op.file) succeeded
DeleteDisk(d, op) == [d EXCEPT ![op.file] = NoFile]

\* a writeFile that throws leaves the file as it was, or cut to nothing when
\* the error comes after the file was opened for writing
FailedWrite(d, f) == {d, [d EXCEPT ![f] = FileOf(<<>>)]}

\* does the op make a file-system call at all (lines 43 and 51-52)
Touches(d, op) == IsWrite(op) \/ (IsDelete(op) /\ d[op.file].exists)

\* variant: the manifest is updated and persisted before the file ops run
StagesPersistFirst == <<"update", "persist", "apply">>

\* order of the steps inside the try block: file ops, refs/facts, persist
Stages == <<"apply", "update", "persist">>
StageAfter(st) ==
  LET k == CHOOSE j \in 1..Len(Stages) : Stages[j] = st
  IN IF k < Len(Stages) THEN Stages[k + 1] ELSE "committed"

----------------------------------------------------------------------------
(* Step 6: undo of one completed op *)

UndoDisk(d, op) ==
  IF op.type = "write" /\ op.previousContent.def
    THEN [d EXCEPT ![op.file] = FileOf(Encode(op.previousContent.val))]
  ELSE IF op.type = "write" /\ ~op.previousContent.def
    THEN (IF d[op.file].exists THEN [d EXCEPT ![op.file] = NoFile] ELSE d)
  ELSE IF op.type = "delete" /\ op.previousContent.def
    THEN [d EXCEPT ![op.file] = FileOf(Encode(op.previousContent.val))]
  ELSE d

\* outcomes of an undo whose file-system call throws
UndoFailDisks(d, op) ==
  IF op.type = "write" /\ op.previousContent.def THEN FailedWrite(d, op.file)
  ELSE IF op.type = "write" /\ ~op.previousContent.def
    THEN (IF d[op.file].exists THEN {d} ELSE {})
  ELSE IF op.type = "delete" /\ op.previousContent.def THEN FailedWrite(d, op.file)
  ELSE {}

\* `for (const op of completed.reverse())`
RollbackOrder(c) == Reverse(c)

\* variant: without the inner try/catch the first undo error ends the loop
AfterUndoErrorAbort(k, n) == n + 1

\* position of the rollback loop after the undo at position k threw
AfterUndoError(k, n) == k + 1

\* variant: the error of a failed undo takes the place of the caught error
ErrorAfterUndoErrorReplaced(err) == "undo"

\* the error `throw error` will raise, after an undo threw: the inner catch
\* binds the undo's error to rollbackError and only logs it
ErrorAfterUndoError(err) == err

----------------------------------------------------------------------------
(* The engine: documents, the diff, the record of one change-event callback *)

MaxSaves == 1
MaxPipes == 2

Docs == {"main.cdml", "other.cdml"}

\* the document config.specFile names
SpecFile == "main.cdml"

\* A document is what its text parses to: the version of each of its two
\* elements (0: the element is not there), whether the nav element carries a
\* plan directive, the state of its plan:questions block, and whether the text
\* is well formed.
Doc(nav, body, plan, q) ==
  [nav |-> nav, body |-> body, plan |-> plan, q |-> q, bad |-> FALSE]

\* the empty string
Empty == Doc(0, 0, FALSE, "none")

\* no file at the path; no entry in the cache
Absent == [nav |-> -1, body |-> 0, plan |-> FALSE, q |-> "none", bad |-> FALSE]

DocA == Doc(1, 0, FALSE, "none")
DocB == Doc(2, 1, FALSE, "none")
DocPlan == Doc(1, 0, TRUE, "none")
DocOpen == Doc(1, 0, FALSE, "open")
DocAnswered == Doc(1, 0, FALSE, "answered")
DocBad == [nav |-> 1, body |-> 0, plan |-> FALSE, q |-> "none", bad |-> TRUE]

\* what an editor saves
SaveContents == {DocA, DocB, DocPlan, DocOpen, DocAnswered, DocBad}

\* what an editor saves to a document
SavesTo(path) == IF path = SpecFile THEN SaveContents ELSE {DocA, DocB}

\* cache.get(relativePath) || ''
CacheGetOrEmpty(c, path) == IF c[path] = Absent THEN Empty ELSE c[path]

ElemChange(tag, was, is, o, n) ==
  IF o = n THEN <<>>
  ELSE <<[tag |-> tag,
          type |-> IF ~was THEN "added" ELSE IF ~is THEN "removed" ELSE "modified"]>>

\* diffCdml(oldContent, newContent).changes: one entry per element that differs
Changes(old, new) ==
  ElemChange("nav", old.nav # 0, new.nav # 0, <<old.nav, old.plan>>, <<new.nav, new.plan>>)
  \o ElemChange("body", old.body # 0, new.body # 0, old.body, new.body)
  \o ElemChange("plan:questions", old.q # "none", new.q # "none", old.q, new.q)

\* diffCdml and parseSpecFile throw on text that does not parse
Malformed(old, new) == old.bad \/ new.bad

\* variant: the return does not look at oldContent
NoChangesDetectedIgnoresOld(old, new) == Changes(old, new) = <<>>

\* if (!diff.hasChanges && oldContent)
NoChangesDetected(old, new) == Changes(old, new) = <<>> /\ old # Empty

\* parsed.hasPlanDirectives, parsed.hasPlanQuestions, questions.every(q => q.answer)
HasPlanDirectives(c) == c.plan
HasPlanQuestions(c) == c.q # "none"
AllAnswered(c) == c.q = "answered"

\* variant: remove() matches nothing and the block stays
StripQuestionsKeepsBlock(c) == c

\* $('plan\\:questions').remove(); $.html()
StripQuestions(c) == [c EXCEPT !.q = "none"]

\* questionsToFacts(questions, `plan:${date}`)
AnswerFacts == <<Fact("answer")>>

\* preState = contextManifest ? JSON.parse(JSON.stringify(contextManifest)) : null
NoState == [def |-> FALSE, val |-> InitManifest]
PreState(m) == [def |-> TRUE, val |-> m]

\* Object.assign(contextManifest, preState)
Restore(m, pre) == IF pre.def THEN pre.val ELSE m

\* a callback slot no change event occupies
FreePipe ==
  [pc |-> "free", path |-> SpecFile, new |-> Empty, old |-> Empty, before |-> Absent,
   changes |-> <<>>, ci |-> 0, pre |-> NoState, buf |-> Serialize(InitManifest),
   gen |-> "none", wrote |-> 0, fails |-> {}, first |-> FALSE, afterFail |-> FALSE,
   diffs |-> 0, calls |-> 0, newest |-> FALSE, self |-> FALSE]

\* history: the number of saves so far, whether executeClaudeHeadless was ever
\* called, whether the tool ever wrote a file, each document's content when
\* the tool first knew it, the documents that had a change event, whether a
\* cycle has failed, whether an interrupt signal was delivered, whether
\* watcher.close() was called, the documents whose most recent change event
\* has come to its cache.set, the documents whose pending change event comes
\* from the tool's own write
Hist0(d) ==
  [saves |-> 0, generated |-> FALSE, wrote |-> FALSE, prior |-> d, handled |-> {},
   sawFail |-> FALSE, signal |-> FALSE, watcherClosed |-> FALSE, newestDone |-> {},
   selfFed |-> {}]

\* the engine is not running
EngineOff ==
  /\ env = [mode |-> "off", dryRun |-> FALSE, loaded |-> TRUE]
  /\ proc = "off"
  /\ docs = [d \in Docs |-> Absent]
  /\ cache = [d \in Docs |-> Absent]
  /\ events = [change |-> {}, add |-> {}]
  /\ pipes = [i \in 1..MaxPipes |-> FreePipe]
  /\ cur = 0
  /\ hist = Hist0([d \in Docs |-> Absent])

----------------------------------------------------------------------------
(* The System Scaffolder: the project tree and the system's components     *)

MaxComponents == 2

ComponentNames == {"web", "api"}

SystemName == "shop"

\* a SystemComponent: its tag name and its submodule attribute
Component(n, sub) == [name |-> n, submodule |-> sub]

ComponentValues == {Component(n, sub) : n \in ComponentNames, sub \in BOOLEAN}

\* system.components
ComponentsInputs == SeqsUpTo(ComponentValues, MaxComponents)

\* the paths createSystemComponents looks at
DirOf(n) == <<n, "dir">>
SkeletonOf(n) == <<n, "skeleton">>
ClaudivDirOf(n) == <<n, "claudiv">>
ContextOf(n) == <<n, "context">>
ProjectManifestPath == <<"project", "manifest">>

TreePaths ==
  UNION {{DirOf(n), SkeletonOf(n), ClaudivDirOf(n), ContextOf(n)} : n \in ComponentNames}
  \cup {ProjectManifestPath}

NoEntry == [kind |-> "none", text |-> <<>>]
DirEntry == [kind |-> "dir", text |-> <<>>]
FileEntry(text) == [kind |-> "file", text |-> text]

\* a file the scaffolder did not write
UserText == <<"user">>

\* existsSync(path)
Exists(tree, path) == tree[path].kind # "none"

\* generateComponentSkeleton(component, system.name)
SkeletonText(c) == <<"component", c.name, SystemName>>

\* generateComponentContext(component, system.name)
ContextText(c) == <<"claudiv-context", c.name, SystemName>>

RECURSIVE DirectoryLinesReversed(_)
\* variant: the directories are listed last declared first
DirectoryLinesReversed(cs) ==
  IF cs = <<>> THEN <<>> ELSE DirectoryLinesReversed(Tail(cs)) \o <<Head(cs).name>>

RECURSIVE DirectoryLines(_)
\* system.components.map(c => `<directory path="${c.name}/" .../>`)
DirectoryLines(cs) ==
  IF cs = <<>> THEN <<>> ELSE <<Head(cs).name>> \o DirectoryLines(Tail(cs))

\* the content updateProjectManifest writes
ProjectText(cs) == <<"project", SystemName, ".">> \o DirectoryLines(cs) \o <<"aspects">>

\* no run of the scaffolder
ScafIdle ==
  [pc |-> "off", comps |-> <<>>, i |-> 1, created |-> <<>>, writes |-> <<>>,
   run |-> 0, fellBack |-> {}, tree |-> [q \in TreePaths |-> NoEntry],
   tree0 |-> [q \in TreePaths |-> NoEntry]]

ScaffolderOff == scaf = ScafIdle

----------------------------------------------------------------------------
(* SpecFileWatcher: the chokidar watcher behind a debounced handler *)

MaxFsEvents == 3

\* a SpecFileWatcher after its constructor: watcher = null, isUpdating = false,
\* no call of the debounced handler pending. History: the number of events
\* chokidar has reported, whether stop() has returned, whether every event
\* behind the pending call came while isUpdating was true, whether one of
\* them came before stop(), and for each emitted 'change' whether it had only
\* such events behind it and whether it came after stop().
NewFileWatcher ==
  [watcher |-> "null", isUpdating |-> FALSE, timer |-> FALSE,
   reported |-> 0, stopped |-> FALSE, onlyOwn |-> FALSE, emitted |-> <<>>]

FileWatcherOff == fw = NewFileWatcher

----------------------------------------------------------------------------
(* The state machine *)

TypeOK ==
  /\ pc \in {"idle", "apply", "update", "persist", "rollback", "committed", "raised"}
  /\ idx \in 1..(MaxOps + 2)
  /\ error \in {"none", "op", "persist"}

InitLocals ==
  /\ pc = "idle"
  /\ ops = <<>>
  /\ opsIn = <<>>
  /\ newRefs = <<>>
  /\ newFacts = <<>>
  /\ scopePath = ScopeApp
  /\ idx = 1
  /\ completed = <<>>
  /\ rb = 1
  /\ error = "none"
  /\ manifestWrites = 0
  /\ undoAttempted = {}
  /\ undoFailed = {}

InitFiles ==
  /\ disk \in [Files -> {NoFile, FileOf(BytesO), FileOf(BytesBad)}]
  /\ manifest = InitManifest
  /\ manifestFile = Serialize(InitManifest)
  /\ disk0 = disk
  /\ manifest0 = manifest
  /\ manifestFile0 = manifestFile
  /\ InitLocals
  /\ EngineOff
  /\ ScaffolderOff
  /\ FileWatcherOff

InitManifestRun ==
  /\ disk = [f \in Files |-> NoFile]
  /\ manifest = InitManifest
  /\ manifestFile = Serialize(InitManifest)
  /\ disk0 = disk
  /\ manifest0 = manifest
  /\ manifestFile0 = manifestFile
  /\ InitLocals
  /\ EngineOff
  /\ ScaffolderOff
  /\ FileWatcherOff

RECURSIVE SumLen(_)
SumLen(ss) == IF ss = <<>> THEN 0 ELSE Len(Head(ss).facts) + SumLen(Tail(ss))

\* number of facts the manifest holds
TotalFacts(m) == Len(m.global.facts) + SumLen(m.scopes)

\* executeTransaction(ops, contextManifest, contextPath, newRefs, newFacts, scopePath)
Begin(opsSet, refsSet, factsSet, pathSet) ==
  /\ pc = "idle"
  /\ \E o \in opsSet, r \in refsSet, nf \in factsSet, p \in pathSet :
       /\ TotalFacts(manifest) + Len(nf) <= MaxFacts
       /\ ops' = o
       /\ opsIn' = o
       /\ newRefs' = r
       /\ newFacts' = nf
       /\ scopePath' = p
  /\ pc' = Stages[1]
  /\ idx' = 1
  /\ completed' = <<>>
  /\ rb' = 1
  /\ error' = "none"
  /\ disk0' = disk
  /\ manifest0' = manifest
  /\ manifestFile0' = manifestFile
  /\ manifestWrites' = 0
  /\ undoAttempted' = {}
  /\ undoFailed' = {}
  /\ UNCHANGED <<disk, manifest, manifestFile, eng>>

\* one pass of the for-loop whose op is applied
ApplyOp ==
  /\ pc = "apply"
  /\ idx <= Len(ops)
  /\ Touches(disk, ops[idx])
  /\ ops' = [ops EXCEPT ![idx].previousContent = Captured(disk, ops[idx])]
  /\ disk' = IF IsWrite(ops[idx]) THEN WriteDisk(disk, ops[idx])
             ELSE DeleteDisk(disk, ops[idx])
  /\ completed' = Append(completed, idx)
  /\ idx' = idx + 1
  /\ UNCHANGED <<manifestFile, manifest, pc, newRefs, newFacts, scopePath, rb, error,
                 disk0, manifest0, manifestFile0, opsIn, manifestWrites, undoAttempted,
                 undoFailed, eng>>

\* one pass of the for-loop that does nothing: a write without content, or a
\* delete of a file that does not exist
SkipOp ==
  /\ pc = "apply"
  /\ idx <= Len(ops)
  /\ ~Touches(disk, ops[idx])
  /\ idx' = idx + 1
  /\ UNCHANGED <<disk, manifestFile, manifest, pc, ops, newRefs, newFacts, scopePath,
                 completed, rb, error, disk0, manifest0, manifestFile0, opsIn,
                 manifestWrites, undoAttempted, undoFailed, eng>>

\* one pass of the for-loop in which readFile, writeFile or unlink throws
OpFails ==
  /\ pc = "apply"
  /\ idx <= Len(ops)
  /\ Touches(disk, ops[idx])
  /\ \/ \* readFile throws
        /\ disk[ops[idx].file].exists
        /\ UNCHANGED <<disk, ops>>
     \/ \* writeFile or unlink throws
        /\ ops' = [ops EXCEPT ![idx].previousContent = Captured(disk, ops[idx])]
        /\ disk' \in (IF IsWrite(ops[idx]) THEN FailedWrite(disk, ops[idx].file)
                      ELSE {disk})
  /\ pc' = "rollback"
  /\ error' = "op"
  /\ rb' = 1
  /\ UNCHANGED <<manifestFile, manifest, newRefs, newFacts, scopePath, idx, completed,
                 disk0, manifest0, manifestFile0, opsIn, manifestWrites, undoAttempted,
                 undoFailed, eng>>

\* the for-loop is over
OpsDone ==
  /\ pc = "apply"
  /\ idx > Len(ops)
  /\ pc' = StageAfter("apply")
  /\ UNCHANGED <<disk, manifestFile, manifest, ops, newRefs, newFacts, scopePath, idx,
                 completed, rb, error, disk0, manifest0, manifestFile0, opsIn,
                 manifestWrites, undoAttempted, undoFailed, eng>>

\* steps 2 and 3: refs and facts of the in-memory manifest
UpdateContext ==
  /\ pc = "update"
  /\ manifest' = UpdateManifest(manifest, newRefs, newFacts, scopePath)
  /\ pc' = StageAfter("update")
  /\ UNCHANGED <<disk, manifestFile, ops, newRefs, newFacts, scopePath, idx,
                 completed, rb, error, disk0, manifest0, manifestFile0, opsIn,
                 manifestWrites, undoAttempted, undoFailed, eng>>

\* step 4: writeFile(contextPath, serializeContextManifest(contextManifest))
Persist ==
  /\ pc = "persist"
  /\ manifestFile' = Serialize(manifest)
  /\ manifestWrites' = manifestWrites + 1
  /\ pc' = StageAfter("persist")
  /\ UNCHANGED <<disk, manifest, ops, newRefs, newFacts, scopePath, idx, completed,
                 rb, error, disk0, manifest0, manifestFile0, opsIn, undoAttempted,
                 undoFailed, eng>>

\* step 4 throws
PersistFails ==
  /\ pc = "persist"
  /\ manifestFile' \in {manifestFile, Truncated}
  /\ manifestWrites' = manifestWrites + 1
  /\ pc' = "rollback"
  /\ error' = "persist"
  /\ rb' = 1
  /\ UNCHANGED <<disk, manifest, ops, newRefs, newFacts, scopePath, idx, completed,
                 disk0, manifest0, manifestFile0, opsIn, undoAttempted, undoFailed, eng>>

\* one pass of the rollback loop
Undo ==
  /\ pc = "rollback"
  /\ rb <= Len(completed)
  /\ LET k == RollbackOrder(completed)[rb] IN
       /\ disk' = UndoDisk(disk, ops[k])
       /\ undoAttempted' = undoAttempted \cup {k}
  /\ rb' = rb + 1
  /\ UNCHANGED <<manifestFile, manifest, pc, ops, newRefs, newFacts, scopePath, idx,
                 completed, error, disk0, manifest0, manifestFile0, opsIn, manifestWrites,
                 undoFailed, eng>>

\* one pass of the rollback loop whose writeFile or unlink throws
UndoFails ==
  /\ pc = "rollback"
  /\ rb <= Len(completed)
  /\ LET k == RollbackOrder(completed)[rb] IN
       /\ disk' \in UndoFailDisks(disk, ops[k])
       /\ undoAttempted' = undoAttempted \cup {k}
       /\ undoFailed' = undoFailed \cup {k}
  /\ rb' = AfterUndoError(rb, Len(completed))
  /\ error' = ErrorAfterUndoError(error)
  /\ UNCHANGED <<manifestFile, manifest, pc, ops, newRefs, newFacts, scopePath, idx,
                 completed, disk0, manifest0, manifestFile0, opsIn, manifestWrites, eng>>

\* `throw error` after the rollback loop
Raise ==
  /\ pc = "rollback"
  /\ rb > Len(completed)
  /\ pc' = "raised"
  /\ UNCHANGED <<disk, manifestFile, manifest, ops, newRefs, newFacts, scopePath, idx,
                 completed, rb, error, disk0, manifest0, manifestFile0, opsIn,
                 manifestWrites, undoAttempted, undoFailed, eng>>

\* the call has settled; the caller may start the next transaction
Settle ==
  /\ pc \in {"committed", "raised"}
  /\ pc' = "idle"
  /\ ops' = <<>>
  /\ opsIn' = <<>>
  /\ newRefs' = <<>>
  /\ newFacts' = <<>>
  /\ scopePath' = ScopeApp
  /\ idx' = 1
  /\ completed' = <<>>
  /\ rb' = 1
  /\ error' = "none"
  /\ disk0' = disk
  /\ manifest0' = manifest
  /\ manifestFile0' = manifestFile
  /\ manifestWrites' = 0
  /\ undoAttempted' = {}
  /\ undoFailed' = {}
  /\ UNCHANGED <<disk, manifest, manifestFile, eng>>

Execute ==
  \/ ApplyOp \/ SkipOp \/ OpFails \/ OpsDone \/ UpdateContext
  \/ Persist \/ PersistFails \/ Undo \/ UndoFails \/ Raise

\* one call, with every combination of file ops
BeginFiles ==
  Begin(OpsInputs, {<<>>}, {<<>>, <<Fact("f1")>>}, {ScopeApp})

NextFiles == BeginFiles \/ Execute

SpecFiles == InitFiles /\ [][NextFiles]_vars

\* the file ops of the calls that exercise the manifest: none, or a write
\* of a new file followed by a delete
FewOps == {<<>>, <<WriteOp("a.txt", Some(StrX), None), DeleteOp("b.txt")>>}

\* any number of calls, with every combination of refs
BeginRefs == Begin(FewOps, RefsInputs, {<<>>}, ScopePaths)

NextRefs == BeginRefs \/ Execute \/ Settle

SpecRefs == InitManifestRun /\ [][NextRefs]_vars

\* any number of calls, with every combination of facts
BeginFacts == Begin(FewOps, {<<>>}, FactsInputs, ScopePaths)

NextFacts == BeginFacts \/ Execute \/ Settle

SpecFacts == InitManifestRun /\ [][NextFacts]_vars

----------------------------------------------------------------------------
(* The engine: main, the change and add callbacks, processFileChange,      *)
(* processChange, handlePlanDirectives, handlePlanAnswers                   *)

\* what the engine's own code never touches
txn == <<disk, pc, ops, newRefs, newFacts, scopePath, idx, completed, rb, error,
         disk0, manifest0, manifestFile0, opsIn, manifestWrites, undoAttempted,
         undoFailed, scaf, fw>>

Live == proc \in {"watching", "running"}

\* the await pipeline p stands at completes: its continuation starts to run
Resumes(p, where) == Live /\ cur = 0 /\ pipes[p].pc = where

\* pipeline p is running synchronous code and has come to this place
Runs(p, where) == Live /\ cur = p /\ pipes[p].pc = where

FreeSlots == {i \in 1..MaxPipes : pipes[i].pc = "free"}

Lowest(S) == CHOOSE i \in S : \A j \in S : i <= j

\* the state main() leaves behind when it has loaded its configuration
InitEngine(mode, process) ==
  /\ InitLocals
  /\ disk = [f \in Files |-> NoFile]
  /\ manifest = InitManifest
  /\ manifestFile = Serialize(InitManifest)
  /\ disk0 = disk
  /\ manifest0 = manifest
  /\ manifestFile0 = manifestFile
  /\ env \in [mode : {mode}, dryRun : BOOLEAN, loaded : BOOLEAN]
  /\ proc = process
  /\ events = [change |-> {}, add |-> {}]
  /\ cur = 0
  /\ hist = Hist0(docs)
  /\ ScaffolderOff
  /\ FileWatcherOff

\* watch mode: cache.set(basename(config.specFile), content), then the watcher
\* starts with ignoreInitial, so it reports no document that is already there
InitWatch ==
  /\ docs \in {d \in [Docs -> {Absent, DocA}] : d[SpecFile] # Absent}
  /\ cache = [d \in Docs |-> IF d = SpecFile THEN docs[d] ELSE Absent]
  /\ pipes = [i \in 1..MaxPipes |-> FreePipe]
  /\ InitEngine("watch", "watching")

\* what the document of a one-shot run may hold: anything an editor saves, or
\* text without any element
HeadlessContents == SaveContents \cup {Empty}

\* headless mode: main() stands at readFile(config.specFile)
InitHeadless ==
  /\ docs \in {d \in [Docs -> HeadlessContents \cup {Absent}] : d["other.cdml"] = Absent}
  /\ cache = [d \in Docs |-> Absent]
  /\ pipes = [i \in 1..MaxPipes |->
                IF i = 1 THEN [FreePipe EXCEPT !.pc = "read", !.first = TRUE]
                ELSE FreePipe]
  /\ InitEngine("headless", "running")

\* watch mode with two saves the watcher has not yet reported: the tool started
\* on main.cdml = DocA next to an other.cdml it never cached, and an editor has
\* since saved both documents
InitRace ==
  /\ InitLocals
  /\ disk = [f \in Files |-> NoFile]
  /\ manifest = InitManifest
  /\ manifestFile = Serialize(InitManifest)
  /\ disk0 = disk
  /\ manifest0 = manifest
  /\ manifestFile0 = manifestFile
  /\ env \in [mode : {"watch"}, dryRun : BOOLEAN, loaded : BOOLEAN]
  /\ proc = "watching"
  /\ docs \in {d \in [Docs -> SaveContents \ {DocA}] : d["other.cdml"] = DocB}
  /\ cache = [d \in Docs |-> IF d = SpecFile THEN DocA ELSE Absent]
  /\ events = [change |-> Docs, add |-> {}]
  /\ pipes = [i \in 1..MaxPipes |-> FreePipe]
  /\ cur = 0
  /\ hist = Hist0([d \in Docs |-> DocA])
  /\ ScaffolderOff
  /\ FileWatcherOff

\* an editor saves a document, or creates it
UserSave(path) ==
  /\ proc = "watching"
  /\ cur = 0
  /\ hist.saves < MaxSaves
  /\ \E c \in SavesTo(path) \ {docs[path]} :
       /\ docs' = [docs EXCEPT ![path] = c]
       /\ hist' = [hist EXCEPT !.saves = @ + 1,
                               !.prior = IF docs[path] = Absent
                                         THEN [@ EXCEPT ![path] = c] ELSE @,
                               !.selfFed = @ \ {path}]
  /\ events' = IF docs[path] = Absent
               THEN [events EXCEPT !.add = @ \cup {path}]
               ELSE [events EXCEPT !.change = @ \cup {path}]
  /\ UNCHANGED <<env, proc, cache, pipes, cur, manifest, manifestFile, txn>>

\* watcher.on('change'): the callback starts and stands at await readFile
ChangeEvent(path) ==
  /\ proc = "watching"
  /\ cur = 0
  /\ path \in events.change
  /\ FreeSlots # {}
  /\ events' = [events EXCEPT !.change = @ \ {path}]
  /\ pipes' = [i \in 1..MaxPipes |->
                 IF i = Lowest(FreeSlots)
                 THEN [FreePipe EXCEPT !.pc = "read", !.path = path,
                                       !.first = path \notin hist.handled,
                                       !.afterFail = hist.sawFail,
                                       !.newest = TRUE,
                                       !.self = path \in hist.selfFed]
                 ELSE IF pipes[i].path = path THEN [pipes[i] EXCEPT !.newest = FALSE]
                 ELSE pipes[i]]
  /\ hist' = [hist EXCEPT !.handled = @ \cup {path}, !.newestDone = @ \ {path},
                          !.selfFed = @ \ {path}]
  /\ UNCHANGED <<env, proc, docs, cache, cur, manifest, manifestFile, txn>>

\* watcher.on('add'): cache the new file; a failed read is ignored
AddEvent(path) ==
  /\ proc = "watching"
  /\ cur = 0
  /\ path \in events.add
  /\ events' = [events EXCEPT !.add = @ \ {path}]
  /\ \/ /\ docs[path] # Absent
        /\ cache' = [cache EXCEPT ![path] = docs[path]]
        /\ hist' = [hist EXCEPT !.prior = [@ EXCEPT ![path] = docs[path]]]
     \/ UNCHANGED <<cache, hist>>
  /\ UNCHANGED <<env, proc, docs, pipes, cur, manifest, manifestFile, txn>>

\* readFile resolves; oldContent = cache.get(relativePath) || ''
\* (headless: oldContent = '')
ReadOk(p) ==
  /\ Resumes(p, "read")
  /\ docs[pipes[p].path] # Absent
  /\ pipes' = [pipes EXCEPT ![p] =
                 [@ EXCEPT !.pc = "diff",
                           !.new = docs[pipes[p].path],
                           !.old = IF env.mode = "watch"
                                   THEN CacheGetOrEmpty(cache, pipes[p].path)
                                   ELSE Empty,
                           !.before = cache[pipes[p].path]]]
  /\ cur' = p
  /\ UNCHANGED <<env, proc, docs, cache, events, hist, manifest, manifestFile, txn>>

\* readFile rejects
ReadFails(p) ==
  /\ Resumes(p, "read")
  /\ pipes' = [pipes EXCEPT ![p] =
                 [@ EXCEPT !.pc = "failed", !.before = cache[pipes[p].path]]]
  /\ cur' = p
  /\ UNCHANGED <<env, proc, docs, cache, events, hist, manifest, manifestFile, txn>>

\* variant: a diff that throws is made a second time
DiffCallsRetried(n, old, new) == IF Malformed(old, new) THEN n + 2 ELSE n + 1

\* the number of diffCdml calls of a callback after line 210
DiffCalls(n, old, new) == n + 1

\* processFileChange: diffCdml, the no-change return, getChangedElements
DiffStep(p) ==
  /\ Runs(p, "diff")
  /\ pipes' = [pipes EXCEPT ![p] =
       LET d == DiffCalls(pipes[p].diffs, pipes[p].old, pipes[p].new) IN
       IF Malformed(pipes[p].old, pipes[p].new)
       THEN [@ EXCEPT !.pc = "failed", !.diffs = d]
       ELSE IF NoChangesDetected(pipes[p].old, pipes[p].new)
       THEN [@ EXCEPT !.pc = "done", !.diffs = d]
       ELSE [@ EXCEPT !.pc = "plan", !.diffs = d,
                      !.changes = Changes(pipes[p].old, pipes[p].new)]]
  /\ UNCHANGED <<env, proc, docs, cache, events, cur, hist, manifest, manifestFile, txn>>

\* if (parsed.hasPlanDirectives) await handlePlanDirectives(...): the call of
\* executeClaudeHeadless for the directive
PlanStep(p) ==
  /\ Runs(p, "plan")
  /\ IF HasPlanDirectives(pipes[p].new)
     THEN /\ pipes' = [pipes EXCEPT ![p] = [@ EXCEPT !.pc = "planGen", !.calls = @ + 1]]
          /\ hist' = [hist EXCEPT !.generated = TRUE]
          /\ cur' = 0
     ELSE /\ pipes' = [pipes EXCEPT ![p] = [@ EXCEPT !.pc = "answers"]]
          /\ UNCHANGED <<hist, cur>>
  /\ UNCHANGED <<env, proc, docs, cache, events, manifest, manifestFile, txn>>

\* variant: a successful plan expansion is recorded in the manifest
AfterDirectiveRecords(m, success) ==
  IF success THEN [m EXCEPT !.global.facts = PushFacts(@, <<Fact("plan")>>)] ELSE m

\* the manifest after a directive's result: on success the response is
\* written to stdout, on failure the error is logged
AfterDirective(m, success) == m

\* the directive's generation returns; its result is only logged or printed
PlanGenDone(p) ==
  /\ Resumes(p, "planGen")
  /\ \E success \in BOOLEAN : manifest' = AfterDirective(manifest, success)
  /\ pipes' = [pipes EXCEPT ![p] = [@ EXCEPT !.pc = "answers", !.calls = @ - 1]]
  /\ cur' = p
  /\ UNCHANGED <<env, proc, docs, cache, events, hist, manifestFile, txn>>

\* if (parsed.hasPlanQuestions) await handlePlanAnswers(...), up to its first
\* writeFile
AnswersStep(p) ==
  /\ Runs(p, "answers")
  /\ IF ~(HasPlanQuestions(pipes[p].new) /\ AllAnswered(pipes[p].new))
     THEN /\ pipes' = [pipes EXCEPT ![p] = [@ EXCEPT !.pc = "filter"]]
          /\ UNCHANGED <<manifest, cur>>
     ELSE IF env.loaded
     THEN /\ manifest' = [manifest EXCEPT !.global.facts = PushFacts(@, AnswerFacts)]
          /\ pipes' = [pipes EXCEPT ![p] =
                         [@ EXCEPT !.pc = "ansManifest", !.buf = Serialize(manifest')]]
          /\ cur' = 0
     ELSE /\ pipes' = [pipes EXCEPT ![p] = [@ EXCEPT !.pc = "ansDoc"]]
          /\ cur' = 0
          /\ UNCHANGED manifest
  /\ UNCHANGED <<env, proc, docs, cache, events, hist, manifestFile, txn>>

\* handlePlanAnswers: writeFile(contextPath, ...) settles; on success the
\* questions block is removed and writeFile(filePath, ...) is called
AnsManifestDone(p) ==
  /\ Resumes(p, "ansManifest")
  /\ \/ /\ manifestFile' = pipes[p].buf
        /\ pipes' = [pipes EXCEPT ![p] = [@ EXCEPT !.pc = "ansDoc"]]
        /\ hist' = [hist EXCEPT !.wrote = TRUE]
        /\ UNCHANGED cur
     \/ /\ manifestFile' \in {manifestFile, Truncated}
        /\ pipes' = [pipes EXCEPT ![p] = [@ EXCEPT !.pc = "failed"]]
        /\ cur' = p
        /\ UNCHANGED hist
  /\ UNCHANGED <<env, proc, docs, cache, events, manifest, txn>>

\* handlePlanAnswers: writeFile(filePath, updatedContent) settles; the watcher
\* sees the write
AnsDocDone(p) ==
  /\ Resumes(p, "ansDoc")
  /\ \/ /\ docs' = [docs EXCEPT ![pipes[p].path] = StripQuestions(pipes[p].new)]
        /\ events' = IF env.mode = "watch"
                     THEN [events EXCEPT !.change = @ \cup {pipes[p].path}]
                     ELSE events
        /\ pipes' = [pipes EXCEPT ![p] = [@ EXCEPT !.pc = "filter"]]
        /\ hist' = [hist EXCEPT !.wrote = TRUE,
                                !.selfFed = IF env.mode = "watch"
                                            THEN @ \cup {pipes[p].path} ELSE @]
     \/ /\ pipes' = [pipes EXCEPT ![p] = [@ EXCEPT !.pc = "failed"]]
        /\ UNCHANGED <<docs, events, hist>>
  /\ cur' = p
  /\ UNCHANGED <<env, proc, cache, manifest, manifestFile, txn>>

\* if (filteredChanges.length === 0) return; otherwise the loop starts
FilterStep(p) ==
  /\ Runs(p, "filter")
  /\ pipes' = [pipes EXCEPT ![p] =
       IF pipes[p].changes = <<>> THEN [@ EXCEPT !.pc = "done"]
       ELSE [@ EXCEPT !.pc = "change", !.ci = 1]]
  /\ UNCHANGED <<env, proc, docs, cache, events, cur, hist, manifest, manifestFile, txn>>

\* variant: processChange goes on without a manifest
AssemblesAlways(loaded) == TRUE

\* if (!contextManifest) return: processChange goes on to assembleContext only
\* with a manifest
Assembles(loaded) == loaded

\* processChange: the snapshot, the return without a manifest, the call of
\* assembleContext
ChangeStep(p) ==
  /\ Runs(p, "change")
  /\ IF Assembles(env.loaded)
     THEN /\ pipes' = [pipes EXCEPT ![p] =
                         [@ EXCEPT !.pc = "assemble",
                                   !.pre = IF env.loaded THEN PreState(manifest)
                                           ELSE NoState,
                                   !.gen = "none", !.wrote = 0]]
          /\ cur' = 0
     ELSE /\ pipes' = [pipes EXCEPT ![p] =
                         [@ EXCEPT !.pc = "next", !.pre = NoState,
                                   !.gen = "none", !.wrote = 0]]
          /\ UNCHANGED cur
  /\ UNCHANGED <<env, proc, docs, cache, events, hist, manifest, manifestFile, txn>>

\* variant: the catch block of processChange throws the error on
ChangeCatchNextRethrows == "failed"

\* where processChange's catch block leaves the pipeline: it logs, restores
\* and returns
ChangeCatchNext == "next"

\* catch (error) { logger.error(...); Object.assign(contextManifest, preState) }
Catch(p) ==
  /\ manifest' = Restore(manifest, pipes[p].pre)
  /\ pipes' = [pipes EXCEPT ![p] =
                 [@ EXCEPT !.pc = ChangeCatchNext, !.fails = @ \cup {pipes[p].ci}]]
  /\ cur' = p

\* assembleContext settles; in a dry run processChange returns here,
\* otherwise it calls executeClaudeHeadless
AssembleDone(p) ==
  /\ Resumes(p, "assemble")
  /\ \/ /\ env.dryRun
        /\ pipes' = [pipes EXCEPT ![p] = [@ EXCEPT !.pc = "next"]]
        /\ cur' = p
        /\ UNCHANGED <<hist, manifest>>
     \/ /\ ~env.dryRun
        /\ pipes' = [pipes EXCEPT ![p] = [@ EXCEPT !.pc = "gen", !.calls = @ + 1]]
        /\ hist' = [hist EXCEPT !.generated = TRUE]
        /\ UNCHANGED <<cur, manifest>>
     \/ /\ Catch(p)
        /\ UNCHANGED hist
  /\ UNCHANGED <<env, proc, docs, cache, events, manifestFile, txn>>

\* variant: without `if (!result.success) throw`, the commit follows any result
AfterGenerationIgnoresResult(success) == "commit"

\* if (!result.success) throw new Error(...)
AfterGeneration(success) == IF success THEN "commit" ELSE "catch"

\* executeClaudeHeadless returns: on success the response is printed and
\* writeFile(contextPath, serializeContextManifest(contextManifest)) is called
GenDone(p) ==
  /\ Resumes(p, "gen")
  /\ \E success \in BOOLEAN :
       IF AfterGeneration(success) = "commit"
       THEN /\ pipes' = [pipes EXCEPT ![p] =
                           [@ EXCEPT !.pc = "commit", !.buf = Serialize(manifest),
                                     !.gen = IF success THEN "ok" ELSE "fail",
                                     !.wrote = @ + 1, !.calls = @ - 1]]
            /\ UNCHANGED <<cur, manifest>>
       ELSE /\ manifest' = Restore(manifest, pipes[p].pre)
            /\ pipes' = [pipes EXCEPT ![p] =
                           [@ EXCEPT !.pc = ChangeCatchNext, !.gen = "fail",
                                     !.fails = @ \cup {pipes[p].ci},
                                     !.calls = @ - 1]]
            /\ cur' = p
  /\ UNCHANGED <<env, proc, docs, cache, events, hist, manifestFile, txn>>

\* the commit's writeFile settles
CommitDone(p) ==
  /\ Resumes(p, "commit")
  /\ \/ /\ manifestFile' = pipes[p].buf
        /\ pipes' = [pipes EXCEPT ![p] = [@ EXCEPT !.pc = "next"]]
        /\ hist' = [hist EXCEPT !.wrote = TRUE]
        /\ cur' = p
        /\ UNCHANGED manifest
     \/ /\ manifestFile' \in {manifestFile, Truncated}
        /\ Catch(p)
        /\ UNCHANGED hist
  /\ UNCHANGED <<env, proc, docs, cache, events, txn>>

\* variant: the loop steps over every other change
NextChangeSkips(ci) == ci + 2

\* the loop's iterator: the change after change ci
NextChange(ci) == ci + 1

\* for (const change of filteredChanges): the next change, or the return of
\* processFileChange
NextStep(p) ==
  /\ Runs(p, "next")
  /\ pipes' = [pipes EXCEPT ![p] =
       IF pipes[p].ci < Len(pipes[p].changes)
       THEN [@ EXCEPT !.pc = "change", !.ci = NextChange(@)]
       ELSE [@ EXCEPT !.pc = "done"]]
  /\ UNCHANGED <<env, proc, docs, cache, events, cur, hist, manifest, manifestFile, txn>>

\* the change callback after processFileChange: cache.set(relativePath, newContent)
FinishCycle(p) ==
  /\ proc = "watching"
  /\ Runs(p, "done")
  /\ cache' = [cache EXCEPT ![pipes[p].path] = pipes[p].new]
  /\ hist' = [hist EXCEPT !.sawFail = @ \/ pipes[p].fails # {},
                          !.newestDone = IF pipes[p].newest
                                         THEN @ \cup {pipes[p].path} ELSE @]
  /\ pipes' = [pipes EXCEPT ![p] = FreePipe]
  /\ cur' = 0
  /\ UNCHANGED <<env, proc, docs, events, manifest, manifestFile, txn>>

\* variant: the change callback has no try/catch, the rejection ends the process
AfterCycleErrorCrashes(process) == "crashed"

\* catch (error) { logger.error(`Error: ...`) }
AfterCycleError(process) == process

\* the change callback's catch block
CycleFails(p) ==
  /\ proc = "watching"
  /\ Runs(p, "failed")
  /\ proc' = AfterCycleError(proc)
  /\ hist' = [hist EXCEPT !.sawFail = TRUE]
  /\ pipes' = [pipes EXCEPT ![p] = FreePipe]
  /\ cur' = 0
  /\ UNCHANGED <<env, docs, cache, events, manifest, manifestFile, txn>>

\* headless: logger.info('Generation complete'); process.exit(0)
ExitOk ==
  /\ proc = "running"
  /\ Runs(1, "done")
  /\ proc' = "exit0"
  /\ cur' = 0
  /\ UNCHANGED <<env, docs, cache, events, pipes, hist, manifest, manifestFile, txn>>

\* headless: main().catch((error) => { ...; process.exit(1) })
ExitError ==
  /\ proc = "running"
  /\ Runs(1, "failed")
  /\ proc' = "exit1"
  /\ cur' = 0
  /\ UNCHANGED <<env, docs, cache, events, pipes, hist, manifest, manifestFile, txn>>

\* one step of one change pipeline
Pipeline ==
  \E p \in 1..MaxPipes :
    \/ ReadOk(p)
    \/ ReadFails(p)
    \/ DiffStep(p)
    \/ PlanStep(p)
    \/ PlanGenDone(p)
    \/ AnswersStep(p)
    \/ AnsManifestDone(p)
    \/ AnsDocDone(p)
    \/ FilterStep(p)
    \/ ChangeStep(p)
    \/ AssembleDone(p)
    \/ GenDone(p)
    \/ CommitDone(p)
    \/ NextStep(p)

NextWatch ==
  \/ \E path \in Docs : UserSave(path)
  \/ \E path \in Docs : ChangeEvent(path)
  \/ \E path \in Docs : AddEvent(path)
  \/ Pipeline
  \/ \E p \in 1..MaxPipes : FinishCycle(p)
  \/ \E p \in 1..MaxPipes : CycleFails(p)

SpecWatch == InitWatch /\ [][NextWatch]_vars

\* the watch loop between two saves
NextRace ==
  \/ \E path \in Docs : ChangeEvent(path)
  \/ Pipeline
  \/ \E p \in 1..MaxPipes : FinishCycle(p)
  \/ \E p \in 1..MaxPipes : CycleFails(p)

SpecRace == InitRace /\ [][NextRace]_vars

\* every await settles (the generation call has a timeout) and the watcher
\* delivers every event it has
SpecSettles == InitRace /\ [][NextRace]_vars /\ WF_vars(NextRace)

NextHeadless == Pipeline \/ ExitOk \/ ExitError

SpecHeadless == InitHeadless /\ [][NextHeadless]_vars

----------------------------------------------------------------------------
(* Properties of the Transaction Coordinator *)

\* an op that declares an effect: a write with content, or a delete
Declares(op) == IsWrite(op) \/ IsDelete(op)

\* indices of the ops of o that declare an effect on file f
Naming(o, f) == {k \in 1..Len(o) : o[k].file = f /\ Declares(o[k])}

\* what the declared ops make of file f, starting from disk d
Declared(d, o, f) ==
  IF Naming(o, f) = {} THEN d[f]
  ELSE LET last == o[Max(Naming(o, f))]
       IN IF IsWrite(last) THEN FileOf(Encode(last.content.val)) ELSE NoFile

\* files of the completed ops
TouchedFiles == {ops[k].file : k \in Range(completed)}

\* C1: after a call in which every step succeeded, every file named by an op
\* is what its (last) op declares - a written file holds the op's content, a
\* deleted file is absent - and every file no op names is as it was before.
C1_CommitAppliesOps ==
  pc = "committed" => \A f \in Files : disk[f] = Declared(disk0, opsIn, f)

C1_Witness ==
  /\ pc = "committed"
  /\ Len(completed) = 2
  /\ IsWrite(ops[1]) /\ IsWrite(ops[2])
  /\ ops[1].file = "a.txt" /\ ops[2].file = "a.txt"
  /\ ops[1].content # ops[2].content
  /\ disk0["a.txt"].exists
  /\ disk0["b.txt"].exists

\* C2: when the k-th op fails, after the rollback every file touched by the
\* ops before it has its state from before the call, byte for byte (stated
\* for the calls in which no undo threw and whose op objects came in
\* without a previousContent).
C2_RollbackRestoresTouched ==
  (/\ pc = "raised"
   /\ error = "op"
   /\ undoFailed = {}
   /\ \A k \in 1..Len(opsIn) : ~opsIn[k].previousContent.def)
  => \A f \in TouchedFiles : disk[f] = disk0[f]

\* C3: when all file ops were applied and the persist step fails, the call
\* raises and a file that a write op newly created does not exist afterwards
\* (stated for the calls in which no undo threw).
C3_PersistFailureRemovesCreated ==
  (/\ pc = "raised"
   /\ error = "persist"
   /\ undoFailed = {})
  => \A f \in TouchedFiles : ~disk0[f].exists => ~disk[f].exists

\* C4: whenever the call fails, the in-memory manifest holds what the manifest
\* file holds (stated for the calls that started with the two in agreement
\* and whose failure left the file's content alone).
C4_FailureKeepsManifestInSync ==
  (/\ pc = "raised"
   /\ manifestFile0 = Serialize(manifest0)
   /\ manifestFile = manifestFile0)
  => manifestFile = Serialize(manifest)

\* C5: a call that fails at a file op leaves the manifest file as it was; the
\* manifest file is written at most once per call, and only after every file
\* op succeeded.
C5_ManifestFileOnlyAfterOps ==
  /\ error = "op" => manifestFile = manifestFile0
  /\ manifestWrites <= 1
  /\ manifestWrites = 1 => (idx > Len(ops) /\ error # "op")

C5_Witness ==
  /\ pc = "raised"
  /\ error = "op"
  /\ completed # <<>>
  /\ newFacts # <<>>

UniqueByFile(refs) ==
  \A p, q \in 1..Len(refs) : refs[p].file = refs[q].file => p = q

NamedFiles(nrefs) == {nrefs[k].file : k \in 1..Len(nrefs)}

\* the last ref of nrefs for file f
LastRefFor(nrefs, f) == nrefs[Max({k \in 1..Len(nrefs) : nrefs[k].file = f})]

\* the first position in nrefs of a ref for file f
FirstPos(nrefs, f) ==
  CHOOSE k \in 1..Len(nrefs) :
    nrefs[k].file = f /\ \A j \in 1..(k - 1) : nrefs[j].file # f

\* C6: in every scope the refs are unique by file; a committed call whose
\* scopePath names a scope leaves that scope's old refs at their positions,
\* each replaced by the last new ref for its file if there is one, followed
\* by one ref for each new file in the order the new files were first named.
C6_RefsUniqueAndReplacedInPlace ==
  /\ UniqueByFile(manifest.global.refs)
  /\ \A k \in 1..Len(manifest.scopes) : UniqueByFile(manifest.scopes[k].refs)
  /\ (pc = "committed" /\ FindScope(manifest0, scopePath) >= 1) =>
       LET s == FindScope(manifest0, scopePath)
           r0 == manifest0.scopes[s].refs
           r1 == manifest.scopes[s].refs
       IN /\ Len(r1) >= Len(r0)
          /\ \A p \in 1..Len(r0) :
               r1[p] = IF r0[p].file \in NamedFiles(newRefs)
                       THEN LastRefFor(newRefs, r0[p].file)
                       ELSE r0[p]
          /\ \A p \in (Len(r0) + 1)..Len(r1) :
               /\ r1[p].file \in NamedFiles(newRefs)
               /\ r1[p] = LastRefFor(newRefs, r1[p].file)
          /\ \A f \in NamedFiles(newRefs) : \E p \in 1..Len(r1) : r1[p].file = f
          /\ \A p, q \in (Len(r0) + 1)..Len(r1) :
               p < q => FirstPos(newRefs, r1[p].file) < FirstPos(newRefs, r1[q].file)

C6_Witness ==
  /\ pc = "committed"
  /\ scopePath = ScopeApp
  /\ manifest0.scopes[1].refs = <<Ref("a.txt", 1), Ref("b.txt", 1)>>
  /\ Ref("a.txt", 2) \in Range(newRefs)
  /\ manifest.scopes[1].refs = <<Ref("a.txt", 2), Ref("b.txt", 1)>>

\* C7: every step leaves every fact list a prefix of what it becomes: no
\* list gets shorter and no recorded fact changes or moves.
C7_FactsAppendOnly ==
  [][/\ IsPrefix(manifest.global.facts, manifest'.global.facts)
     /\ Len(manifest'.scopes) = Len(manifest.scopes)
     /\ \A k \in 1..Len(manifest.scopes) :
          IsPrefix(manifest.scopes[k].facts, manifest'.scopes[k].facts)]_vars

C7_Witness ==
  /\ pc = "committed"
  /\ \E k \in 1..Len(manifest.scopes) :
       /\ Len(manifest0.scopes[k].facts) > 0
       /\ Len(manifest.scopes[k].facts) > Len(manifest0.scopes[k].facts)

\* C8: after a committed call every new ref (the last one for its file) is in
\* the manifest, whatever scopePath was passed.
C8_NewRefsRecorded ==
  pc = "committed" =>
    \A f \in NamedFiles(newRefs) :
      \/ LastRefFor(newRefs, f) \in Range(manifest.global.refs)
      \/ \E k \in 1..Len(manifest.scopes) :
           LastRefFor(newRefs, f) \in Range(manifest.scopes[k].refs)

\* C9: a committed call appends newFacts, in order and all of them, to the
\* fact list of the scope scopePath names, or to the global list when it
\* names none; every other fact list is as it was.
C9_FactsGoToTargetScope ==
  pc = "committed" =>
    LET s == FindScope(manifest0, scopePath) IN
    /\ manifest.global.facts =
         IF s = 0 THEN manifest0.global.facts \o newFacts
         ELSE manifest0.global.facts
    /\ \A k \in 1..Len(manifest0.scopes) :
         manifest.scopes[k].facts =
           IF k = s THEN manifest0.scopes[k].facts \o newFacts
           ELSE manifest0.scopes[k].facts

C9_Witness ==
  /\ pc = "committed"
  /\ scopePath = ScopeMissing
  /\ newFacts = <<Fact("f2"), Fact("f1")>>
  /\ manifest0.global.facts = <<Fact("f1")>>

\* C10: when the rollback is over, the undo of every completed op has been
\* attempted, whichever undos threw.
C10_RollbackVisitsEveryCompleted ==
  pc = "raised" => undoAttempted = Range(completed)

C10_Witness ==
  /\ pc = "raised"
  /\ Len(completed) = 2
  /\ completed[2] \in undoFailed
  /\ completed[1] \in undoAttempted \ undoFailed

\* the step of the try block that threw, read off the position the call
\* stopped at: a file op, or the persist step
FailedStep == IF idx <= Len(ops) THEN "op" ELSE "persist"

\* C11: a call that failed never commits; when it has raised, the rollback
\* loop has gone over every completed op, and the error raised is the one the
\* try block threw, also when undos threw.
C11_OriginalErrorRaisedAfterRollback ==
  /\ error # "none" => pc \in {"rollback", "raised"}
  /\ pc = "raised" =>
       /\ error = FailedStep
       /\ rb > Len(completed)
       /\ undoAttempted = Range(completed)

C11_Witness ==
  /\ pc = "raised"
  /\ error = "persist"
  /\ Len(completed) = 2
  /\ undoFailed = Range(completed)

----------------------------------------------------------------------------
(* executeTransaction called by a callback of the process in which a        *)
(* pipeline is running: its steps are the completions of its awaits, and   *)
(* they take their turns with the steps of the pipeline                     *)

SharedOps == FewOps \cup {<<WriteOp("a.txt", Some(StrX), None), DeleteOp("a.txt")>>}

BeginShared ==
  /\ Live
  /\ cur = 0
  /\ Begin(SharedOps, {<<>>}, {<<>>}, {ScopeApp})

ExecuteShared ==
  /\ Live
  /\ cur = 0
  /\ Execute

NextShared == BeginShared \/ ExecuteShared \/ NextHeadless

SpecShared == InitHeadless /\ [][NextShared]_vars

----------------------------------------------------------------------------
(* Startup: loadConfig (src/src/config.ts) and the head of main, followed   *)
(* by the one-shot run                                                       *)

\* the process before loadConfig: the run's environment also says whether a
\* file was named on the command line, the resolved mode and whether an API
\* key is configured; the working directory holds main.cdml or no document
InitMain ==
  /\ InitLocals
  /\ disk = [f \in Files |-> NoFile]
  /\ manifest = InitManifest
  /\ manifestFile = Serialize(InitManifest)
  /\ disk0 = disk
  /\ manifest0 = manifest
  /\ manifestFile0 = manifestFile
  /\ env \in [mode : {"watch", "headless"}, dryRun : BOOLEAN, loaded : BOOLEAN,
               cliFile : BOOLEAN, apiMode : {"cli", "api"}, apiKey : BOOLEAN]
  /\ proc = "start"
  /\ docs \in {d \in [Docs -> SaveContents \cup {Absent}] : d["other.cdml"] = Absent}
  /\ cache = [d \in Docs |-> Absent]
  /\ events = [change |-> {}, add |-> {}]
  /\ pipes = [i \in 1..MaxPipes |-> FreePipe]
  /\ cur = 0
  /\ hist = Hist0(docs)
  /\ ScaffolderOff
  /\ FileWatcherOff

\* if (!existsSync(specFile)) when a file is named
SpecFileMissing(e, d) == e.cliFile /\ d[SpecFile] = Absent

\* cdmlFiles.length === 0 when no file is named
NoCdmlFound(e, d) == ~e.cliFile /\ \A f \in Docs : d[f] = Absent

\* mode === 'api' && !apiKey
ApiKeyMissing(e) == e.apiMode = "api" /\ ~e.apiKey

\* variant: loadConfig without the API key check
AfterLoadConfigNoKeyCheck(e, d) ==
  IF SpecFileMissing(e, d) \/ NoCdmlFound(e, d) THEN "exit1" ELSE "configured"

\* loadConfig: process.exit(1) on each setup error, the configuration otherwise
AfterLoadConfig(e, d) ==
  IF SpecFileMissing(e, d) \/ NoCdmlFound(e, d) \/ ApiKeyMissing(e)
  THEN "exit1" ELSE "configured"

\* const config = loadConfig()
LoadConfig ==
  /\ proc = "start"
  /\ proc' = AfterLoadConfig(env, docs)
  /\ UNCHANGED <<env, docs, cache, events, pipes, cur, hist, manifest, manifestFile, txn>>

\* if (isHeadless): main stands at readFile(config.specFile)
StartHeadless ==
  /\ proc = "configured"
  /\ env.mode = "headless"
  /\ proc' = "running"
  /\ pipes' = [pipes EXCEPT ![1] = [FreePipe EXCEPT !.pc = "read", !.first = TRUE]]
  /\ UNCHANGED <<env, docs, cache, events, cur, hist, manifest, manifestFile, txn>>

\* if (isWatch): the spec file is read into the cache and the watcher is
\* installed; a rejected readFile ends in main().catch
StartWatch ==
  /\ proc = "configured"
  /\ env.mode = "watch"
  /\ \/ /\ docs[SpecFile] # Absent
        /\ cache' = [cache EXCEPT ![SpecFile] = docs[SpecFile]]
        /\ proc' = "watching"
     \/ /\ proc' = "exit1"
        /\ UNCHANGED cache
  /\ UNCHANGED <<env, docs, events, pipes, cur, hist, manifest, manifestFile, txn>>

NextMain == LoadConfig \/ StartHeadless \/ StartWatch \/ NextHeadless

SpecMain == InitMain /\ [][NextMain]_vars

----------------------------------------------------------------------------
(* Watch mode with what reaches the process from outside its callbacks:     *)
(* interrupt signals and the watcher's own 'error' event                     *)

\* the process is gone: nothing is pending any more
Gone ==
  /\ events' = [change |-> {}, add |-> {}]
  /\ pipes' = [i \in 1..MaxPipes |-> FreePipe]
  /\ cur' = 0

\* process.on('SIGINT', shutdown), process.on('SIGTERM', shutdown):
\* watcher.close(); process.exit(0)
Shutdown ==
  /\ proc = "watching"
  /\ cur = 0
  /\ hist' = [hist EXCEPT !.signal = TRUE, !.watcherClosed = TRUE]
  /\ proc' = "exit0"
  /\ Gone
  /\ UNCHANGED <<env, docs, cache, manifest, manifestFile, txn>>

\* the watcher emits 'error' (a watch that cannot be set up or read); main
\* registers listeners for 'change' and 'add' only, and an 'error' event
\* without a listener is thrown by the emitter
WatcherError ==
  /\ proc = "watching"
  /\ cur = 0
  /\ proc' = "crashed"
  /\ Gone
  /\ UNCHANGED <<env, docs, cache, hist, manifest, manifestFile, txn>>

NextSignals == NextWatch \/ Shutdown \/ WatcherError

SpecSignals == InitWatch /\ [][NextSignals]_vars

----------------------------------------------------------------------------
(* The System Scaffolder: createSystemComponents and updateProjectManifest *)
(* (src/src/system-manager.ts), one action per file-system call             *)

\* everything but the scaffolder
nofw == <<disk, manifestFile, manifest, pc, ops, newRefs, newFacts, scopePath,
          idx, completed, rb, error, disk0, manifest0, manifestFile0, opsIn,
          manifestWrites, undoAttempted, undoFailed, env, proc, docs, cache,
          events, pipes, cur, hist, scaf>>

InitFileWatcher ==
  /\ InitLocals
  /\ disk = [f \in Files |-> NoFile]
  /\ manifest = InitManifest
  /\ manifestFile = Serialize(InitManifest)
  /\ disk0 = disk
  /\ manifest0 = manifest
  /\ manifestFile0 = manifestFile
  /\ EngineOff
  /\ ScaffolderOff
  /\ FileWatcherOff

\* start(): the debounced handler is made and chokidar.watch is called
FileWatcherStart ==
  /\ fw.watcher = "null"
  /\ ~fw.stopped
  /\ fw' = [fw EXCEPT !.watcher = "open"]
  /\ UNCHANGED nofw

\* chokidar reports a 'change' or an 'add' of the spec file and calls the
\* debounced handleChange: the delay starts, or starts again
HandleChange ==
  /\ fw.watcher = "open"
  /\ fw.reported < MaxFsEvents
  /\ fw' = [fw EXCEPT !.timer = TRUE,
                      !.reported = @ + 1,
                      !.onlyOwn = IF fw.timer THEN @ /\ fw.isUpdating
                                  ELSE fw.isUpdating]
  /\ UNCHANGED nofw

\* the delay has elapsed: the handler's body runs with the isUpdating of now
DebounceElapsed ==
  /\ fw.timer
  /\ fw' = [fw EXCEPT !.timer = FALSE,
                      !.emitted = IF fw.isUpdating THEN @
                                  ELSE Append(@, [onlyOwn |-> fw.onlyOwn,
                                                  afterStop |-> fw.stopped])]
  /\ UNCHANGED nofw

\* setUpdating(value)
SetUpdating(value) ==
  /\ fw.isUpdating # value
  /\ fw' = [fw EXCEPT !.isUpdating = value]
  /\ UNCHANGED nofw

\* stop(): watcher.close() and watcher = null; the debounced handler is not
\* cancelled
FileWatcherStop ==
  /\ fw.watcher = "open"
  /\ fw' = [fw EXCEPT !.watcher = "null", !.stopped = TRUE]
  /\ UNCHANGED nofw

NextFileWatcher ==
  \/ FileWatcherStart
  \/ HandleChange
  \/ DebounceElapsed
  \/ \E value \in BOOLEAN : SetUpdating(value)
  \/ FileWatcherStop

SpecFileWatcher == InitFileWatcher /\ [][NextFileWatcher]_vars

noscaf == <<disk, manifestFile, manifest, pc, ops, newRefs, newFacts, scopePath,
            idx, completed, rb, error, disk0, manifest0, manifestFile0, opsIn,
            manifestWrites, undoAttempted, undoFailed, env, proc, docs, cache,
            events, pipes, cur, hist, fw>>

\* what a project root may hold for one component before a run
ComponentTrees(n) ==
  LET none == [q \in {DirOf(n), SkeletonOf(n), ClaudivDirOf(n), ContextOf(n)} |-> NoEntry]
      dir == [none EXCEPT ![DirOf(n)] = DirEntry]
      skel == [dir EXCEPT ![SkeletonOf(n)] = FileEntry(UserText)]
      full == [skel EXCEPT ![ClaudivDirOf(n)] = DirEntry,
                           ![ContextOf(n)] = FileEntry(UserText)]
  IN {none, dir, skel, full}

InitTrees ==
  {t \in [TreePaths -> {NoEntry, DirEntry, FileEntry(UserText)}] :
     /\ t[ProjectManifestPath] # DirEntry
     /\ \A n \in ComponentNames :
          \E c \in ComponentTrees(n) : \A q \in DOMAIN c : t[q] = c[q]}

InitScaffold ==
  /\ InitLocals
  /\ disk = [f \in Files |-> NoFile]
  /\ manifest = InitManifest
  /\ manifestFile = Serialize(InitManifest)
  /\ disk0 = disk
  /\ manifest0 = manifest
  /\ manifestFile0 = manifestFile
  /\ EngineOff
  /\ scaf \in {[ScafIdle EXCEPT !.tree = t, !.tree0 = t] : t \in InitTrees}
  /\ FileWatcherOff

\* the component the for-loop is at
Comp == scaf.comps[scaf.i]

\* the first place of a run over the components cs
FirstPlace(cs) == IF cs = <<>> THEN "manifest" ELSE "dir"

\* createSystemComponents(system, projectRoot)
BeginScaffold ==
  /\ scaf.pc = "off"
  /\ \E cs \in ComponentsInputs :
       scaf' = [scaf EXCEPT !.pc = FirstPlace(cs), !.comps = cs, !.i = 1,
                            !.created = <<>>, !.writes = <<>>, !.run = 1,
                            !.fellBack = {}, !.tree0 = scaf.tree]
  /\ UNCHANGED noscaf

\* component.submodule && !existsSync(componentDir)
NeedsSubmodule ==
  /\ scaf.pc = "dir"
  /\ Comp.submodule
  /\ ~Exists(scaf.tree, DirOf(Comp.name))

\* execSync(`git submodule add ...`) returns: git has made the directory
SubmoduleAdd ==
  /\ NeedsSubmodule
  /\ scaf' = [scaf EXCEPT !.tree[DirOf(Comp.name)] = DirEntry, !.pc = "skeleton"]
  /\ UNCHANGED noscaf

\* variant: the error of execSync is not caught
AfterSubmoduleErrorFatal == "failed"

\* catch { if (!existsSync(componentDir)) await mkdir(...) }
AfterSubmoduleError == "mkdir"

\* execSync throws; git may or may not have left the directory behind
SubmoduleFails ==
  /\ NeedsSubmodule
  /\ \E left \in BOOLEAN :
       scaf' = [scaf EXCEPT !.tree[DirOf(Comp.name)] = IF left THEN DirEntry ELSE @,
                            !.fellBack = @ \cup {scaf.i},
                            !.pc = AfterSubmoduleError]
  /\ UNCHANGED noscaf

\* the place where `if (!existsSync(componentDir)) await mkdir(componentDir)`
\* is evaluated: the else branch, the catch block, or a submodule component
\* whose directory is there
AtDirCheck == scaf.pc = "mkdir" \/ (scaf.pc = "dir" /\ ~NeedsSubmodule)

\* the directory is there, or mkdir resolves
MakeDir ==
  /\ AtDirCheck
  /\ scaf' = [scaf EXCEPT !.tree[DirOf(Comp.name)] = DirEntry, !.pc = "skeleton"]
  /\ UNCHANGED noscaf

\* mkdir rejects
MakeDirFails ==
  /\ AtDirCheck
  /\ ~Exists(scaf.tree, DirOf(Comp.name))
  /\ scaf.pc = "mkdir" \/ ~Comp.submodule
  /\ scaf' = [scaf EXCEPT !.pc = "failed"]
  /\ UNCHANGED noscaf

\* if (!existsSync(cdmlPath)) { await writeFile(cdmlPath, skeleton); created.push(...) }
WriteSkeleton ==
  /\ scaf.pc = "skeleton"
  /\ IF Exists(scaf.tree, SkeletonOf(Comp.name))
     THEN scaf' = [scaf EXCEPT !.pc = "ctxdir"]
     ELSE scaf' = [scaf EXCEPT !.tree[SkeletonOf(Comp.name)] = FileEntry(SkeletonText(Comp)),
                               !.created = Append(@, SkeletonOf(Comp.name)),
                               !.writes = Append(@, SkeletonOf(Comp.name)),
                               !.pc = "ctxdir"]
  /\ UNCHANGED noscaf

WriteSkeletonFails ==
  /\ scaf.pc = "skeleton"
  /\ ~Exists(scaf.tree, SkeletonOf(Comp.name))
  /\ scaf' = [scaf EXCEPT !.pc = "failed"]
  /\ UNCHANGED noscaf

\* if (!existsSync(claudivDir)) await mkdir(claudivDir)
MakeClaudivDir ==
  /\ scaf.pc = "ctxdir"
  /\ scaf' = [scaf EXCEPT !.tree[ClaudivDirOf(Comp.name)] = DirEntry, !.pc = "context"]
  /\ UNCHANGED noscaf

MakeClaudivDirFails ==
  /\ scaf.pc = "ctxdir"
  /\ ~Exists(scaf.tree, ClaudivDirOf(Comp.name))
  /\ scaf' = [scaf EXCEPT !.pc = "failed"]
  /\ UNCHANGED noscaf

\* the end of one pass of the for-loop
NextComponent(r) ==
  IF r.i < Len(r.comps) THEN [r EXCEPT !.i = @ + 1, !.pc = "dir"]
  ELSE [r EXCEPT !.pc = "manifest"]

\* if (!existsSync(contextPath)) { await writeFile(contextPath, context); created.push(...) }
WriteContext ==
  /\ scaf.pc = "context"
  /\ IF Exists(scaf.tree, ContextOf(Comp.name))
     THEN scaf' = NextComponent(scaf)
     ELSE scaf' = NextComponent(
                    [scaf EXCEPT !.tree[ContextOf(Comp.name)] = FileEntry(ContextText(Comp)),
                                 !.created = Append(@, ContextOf(Comp.name)),
                                 !.writes = Append(@, ContextOf(Comp.name))])
  /\ UNCHANGED noscaf

WriteContextFails ==
  /\ scaf.pc = "context"
  /\ ~Exists(scaf.tree, ContextOf(Comp.name))
  /\ scaf' = [scaf EXCEPT !.pc = "failed"]
  /\ UNCHANGED noscaf

\* await updateProjectManifest(system, projectRoot): writeFile(manifestPath, content)
UpdateProjectManifest ==
  /\ scaf.pc = "manifest"
  /\ scaf' = [scaf EXCEPT !.tree[ProjectManifestPath] = FileEntry(ProjectText(scaf.comps)),
                          !.created = Append(@, ProjectManifestPath),
                          !.writes = Append(@, ProjectManifestPath),
                          !.pc = "done"]
  /\ UNCHANGED noscaf

\* the writeFile of updateProjectManifest rejects
UpdateProjectManifestFails ==
  /\ scaf.pc = "manifest"
  /\ scaf' = [scaf EXCEPT !.pc = "failed"]
  /\ UNCHANGED noscaf

\* createSystemComponents is called again for the same system document
ScaffoldAgain ==
  /\ scaf.pc = "done"
  /\ scaf.run = 1
  /\ scaf' = [scaf EXCEPT !.pc = FirstPlace(scaf.comps), !.i = 1, !.created = <<>>,
                          !.writes = <<>>, !.run = 2, !.fellBack = {},
                          !.tree0 = scaf.tree]
  /\ UNCHANGED noscaf

NextScaffold ==
  \/ BeginScaffold
  \/ SubmoduleAdd
  \/ SubmoduleFails
  \/ MakeDir
  \/ MakeDirFails
  \/ WriteSkeleton
  \/ WriteSkeletonFails
  \/ MakeClaudivDir
  \/ MakeClaudivDirFails
  \/ WriteContext
  \/ WriteContextFails
  \/ UpdateProjectManifest
  \/ UpdateProjectManifestFails
  \/ ScaffoldAgain

SpecScaffold == InitScaffold /\ [][NextScaffold]_vars

----------------------------------------------------------------------------
(* Properties of the engine *)

PipeIds == 1..MaxPipes

\* C12: when the generation call of a change did not succeed, processChange
\* starts no commit and has written nothing, and when its catch block has run
\* the in-memory manifest is the snapshot taken when the change began.
C12_GenerationFailureWritesNothing ==
  \A p \in PipeIds :
    pipes[p].gen = "fail" =>
      /\ pipes[p].pc # "commit"
      /\ pipes[p].wrote = 0
      /\ (cur = p /\ pipes[p].pc = "next") => manifest = pipes[p].pre.val

C12_Witness ==
  \E p \in PipeIds :
    /\ pipes[p].gen = "fail"
    /\ cur = p
    /\ pipes[p].pc = "next"
    /\ Len(pipes[p].changes) = 2
    /\ pipes[p].pre = PreState(manifest)

\* the change callback of pipeline p returns in this step
CycleEnds(p) == pipes[p].pc \in {"done", "failed"} /\ pipes'[p].pc = "free"

\* the cycle of pipeline p met a failure: its diff, its read or its plan
\* handling threw, or the generation or the commit of one of its changes failed
CycleFailed(p) == pipes[p].pc = "failed" \/ pipes[p].fails # {}

\* C13: the end of a cycle in which something failed leaves the Change Cache
\* as it was; only a cycle without failure sets the entry to the new content.
C13_CacheOnlyAfterSuccess ==
  [][\A p \in PipeIds : (CycleEnds(p) /\ CycleFailed(p)) => cache' = cache]_vars

\* pipeline p is between its diff and the end of its last change
InProgress(p) == pipes[p].pc \notin {"free", "read", "done", "failed"}

\* C14: no two pipelines for the same path are in progress together.
C14_OnePipelinePerPath ==
  \A p, q \in PipeIds :
    (p # q /\ InProgress(p) /\ InProgress(q)) => pipes[p].path # pipes[q].path

\* the transaction has applied an op and has neither committed nor raised
TransactionUnderWay ==
  pc \in {"apply", "update", "persist", "rollback"} /\ Len(completed) >= 1

\* C15: from the application of a transaction's first op to its commit or
\* its raise, no pipeline takes a step.
C15_TransactionDoesNotYield ==
  [][TransactionUnderWay => pipes' = pipes]_vars

\* C16: the refs and facts of the manifest's scopes change only in the
\* coordinator's context update (steps 2 and 3 of executeTransaction).
C16_ManifestOnlyByCoordinator ==
  [][manifest' # manifest => (pc = "update" /\ pc' # "update")]_vars

\* C17: the first change event handled for a document is diffed against the
\* content the document had when the tool first knew it (at startup, or when
\* the watcher discovered it).
C17_FirstChangeDiffsAgainstPrior ==
  \A p \in PipeIds :
    (pipes[p].first /\ pipes[p].pc \notin {"free", "read", "failed"}) =>
      pipes[p].old = hist.prior[pipes[p].path]

\* C18: in a dry run executeClaudeHeadless is never called and the tool
\* writes neither the manifest file nor a document.
C18_DryRunExecutesNothing ==
  env.dryRun => (~hist.generated /\ ~hist.wrote)

\* C19: in watch mode, once a cycle has failed the process is still watching,
\* so the next change event is handled.
C19_WatchSurvivesFailures ==
  hist.sawFail => proc = "watching"

C19_Witness ==
  \E p \in PipeIds :
    /\ pipes[p].afterFail
    /\ pipes[p].pc = "diff"
    /\ proc = "watching"

\* C20: in a headless run a change whose generation or commit failed does not
\* end the run with an error, and when the run exits with code 0 the loop has
\* gone over every change.
C20_HeadlessAttemptsAllChanges ==
  /\ pipes[1].fails # {} => proc # "exit1"
  /\ proc = "exit0" => pipes[1].ci = Len(pipes[1].changes)

C20_Witness ==
  /\ proc = "exit0"
  /\ Len(pipes[1].changes) = 2
  /\ pipes[1].ci = 2
  /\ 1 \in pipes[1].fails
  /\ pipes[1].gen = "ok"

\* one of the setup errors of loadConfig
SetupError(e, d) == SpecFileMissing(e, d) \/ NoCdmlFound(e, d) \/ ApiKeyMissing(e)

\* no diff, no generation call, no write, no watcher yet
NothingDone ==
  /\ \A p \in PipeIds : pipes[p] = FreePipe
  /\ cache = [d \in Docs |-> Absent]
  /\ ~hist.generated
  /\ ~hist.wrote
  /\ manifestFile = Serialize(InitManifest)
  /\ manifest = InitManifest

\* C21: with a setup error the process goes from its start to exit code 1 and
\* nothing has been diffed, generated, written or watched.
C21_SetupErrorExitsFirst ==
  SetupError(env, docs) => (proc \in {"start", "exit1"} /\ NothingDone)

C21_Witness ==
  /\ proc = "exit1"
  /\ ApiKeyMissing(env)
  /\ docs[SpecFile] # Absent
  /\ env.mode = "watch"

\* C22: in watch mode the process has left the watch loop only by an
\* interrupt signal, with the watcher closed and exit code 0.
C22_WatchExitsOnlyOnSignal ==
  proc # "watching" => (proc = "exit0" /\ hist.signal /\ hist.watcherClosed)

\* pipeline p takes a step of handlePlanDirectives
DirectiveStep(p) ==
  /\ pipes[p].pc \in {"plan", "planGen"}
  /\ HasPlanDirectives(pipes[p].new)
  /\ pipes'[p] # pipes[p]

\* C23: a step of plan-directive handling, the call of the generation and its
\* return with either result, leaves the in-memory manifest, the manifest file
\* and every document as they were.
C23_DirectiveTouchesNothing ==
  [][\A p \in PipeIds :
       DirectiveStep(p) =>
         (manifest' = manifest /\ manifestFile' = manifestFile /\ docs' = docs)]_vars

C23_Witness ==
  \E p \in PipeIds :
    /\ pipes[p].pc = "answers"
    /\ cur = p
    /\ HasPlanDirectives(pipes[p].new)
    /\ hist.generated
    /\ env.loaded
    /\ docs[pipes[p].path] = pipes[p].new

\* pipeline p rewrites its document without the questions block in this step
RewritesDocument(p) == pipes[p].pc = "ansDoc" /\ docs' # docs

\* pipeline p passes handlePlanAnswers with a question still unanswered
LeavesQuestionsOpen(p) ==
  /\ pipes[p].pc = "answers"
  /\ HasPlanQuestions(pipes[p].new)
  /\ ~AllAnswered(pipes[p].new)
  /\ pipes'[p] # pipes[p]

\* the manifest file holds the manifest, whose global scope ends with the
\* answers' facts
AnswersPersisted ==
  /\ manifestFile = Serialize(manifest)
  /\ Len(manifest.global.facts) >= Len(AnswerFacts)
  /\ SubSeq(manifest.global.facts,
            Len(manifest.global.facts) - Len(AnswerFacts) + 1,
            Len(manifest.global.facts)) = AnswerFacts

\* C24: when the document of a fully answered block is rewritten, the answers
\* are in the global scope and in the manifest file; with a question open,
\* the manifest, its file and the documents stay as they are.
C24_AnswersPersistedBeforeRewrite ==
  [][\A p \in PipeIds :
       /\ RewritesDocument(p) => AnswersPersisted
       /\ LeavesQuestionsOpen(p) =>
            (manifest' = manifest /\ manifestFile' = manifestFile /\ docs' = docs)]_vars

----------------------------------------------------------------------------
(* Properties of the System Scaffolder *)

FilePaths ==
  {SkeletonOf(n) : n \in ComponentNames} \cup {ContextOf(n) : n \in ComponentNames}
  \cup {ProjectManifestPath}

\* C25: the second run over the same components writes no file.
C25_SecondRunWritesNothing ==
  scaf.run = 2 => scaf.writes = <<>>

\* C26: a skeleton, a component context manifest or the project manifest that
\* was there when a run began has the content it had then.
C26_ExistingFilesKept ==
  \A q \in FilePaths :
    scaf.tree0[q].kind = "file" => scaf.tree[q] = scaf.tree0[q]

\* C27: when createSystemComponents has completed, every component has its
\* directory, its skeleton and its context manifest, and the project manifest
\* names the components' directories in the order of declaration.
C27_CompletedRunHasEverything ==
  scaf.pc = "done" =>
    /\ \A k \in 1..Len(scaf.comps) :
         /\ scaf.tree[DirOf(scaf.comps[k].name)].kind = "dir"
         /\ scaf.tree[SkeletonOf(scaf.comps[k].name)].kind = "file"
         /\ scaf.tree[ClaudivDirOf(scaf.comps[k].name)].kind = "dir"
         /\ scaf.tree[ContextOf(scaf.comps[k].name)].kind = "file"
    /\ scaf.tree[ProjectManifestPath].kind = "file"
    /\ Len(scaf.tree[ProjectManifestPath].text) = Len(scaf.comps) + 4
    /\ \A k \in 1..Len(scaf.comps) :
         scaf.tree[ProjectManifestPath].text[3 + k] = scaf.comps[k].name

C27_Witness ==
  /\ scaf.pc = "done"
  /\ scaf.run = 1
  /\ Len(scaf.comps) = 2
  /\ scaf.comps[1].name = "web"
  /\ scaf.comps[2].name = "api"
  /\ scaf.comps[2].submodule
  /\ scaf.tree0 = [q \in TreePaths |-> NoEntry]

\* C28: a failed submodule registration leads to the fallback directory
\* check, never to the failure of the run, and the component's skeleton step
\* is reached with the component's directory in place.
C28_SubmoduleFailureNotFatal ==
  [][/\ scaf'.fellBack # scaf.fellBack /\ scaf.pc = "dir" => scaf'.pc = "mkdir"
     /\ scaf'.pc = "skeleton" /\ scaf.pc # "skeleton" =>
          scaf'.tree[DirOf(scaf'.comps[scaf'.i].name)].kind = "dir"]_vars

C28_Witness ==
  /\ scaf.pc = "done"
  /\ scaf.run = 1
  /\ Len(scaf.comps) = 2
  /\ scaf.fellBack = {1}
  /\ scaf.tree0[DirOf(scaf.comps[1].name)] = NoEntry
  /\ scaf.tree[SkeletonOf(scaf.comps[1].name)] = FileEntry(SkeletonText(scaf.comps[1]))
  /\ scaf.comps[2].name # scaf.comps[1].name

----------------------------------------------------------------------------
(* Properties of the diff *)

\* an add event is delivered to its callback in this step
AddHandled == events'.add # events.add /\ events'.add \subseteq events.add

\* some callback calls diffCdml in this step
DiffMade == \E p \in PipeIds : pipes'[p].diffs > pipes[p].diffs

\* the readFile of pipeline p resolved
ReadSucceeded(p) == pipes[p].new # Empty

\* C29, as stated: the callback of every watcher event, change or add, makes
\* exactly one diff call.
C29_EveryEventOneDiff ==
  [][/\ \A p \in PipeIds : CycleEnds(p) => pipes[p].diffs = 1
     /\ AddHandled => DiffMade]_vars

\* C29, amended: the callback of a change event whose file was read makes
\* exactly one diff call, also when the diff throws; a change event whose
\* read fails and an add event make none.
C29_ChangeEventOneDiff ==
  [][/\ \A p \in PipeIds :
          CycleEnds(p) => pipes[p].diffs = (IF ReadSucceeded(p) THEN 1 ELSE 0)
     /\ AddHandled => ~DiffMade]_vars

C29_Witness ==
  \E p \in PipeIds :
    /\ pipes[p].pc = "failed"
    /\ cur = p
    /\ pipes[p].diffs = 1
    /\ pipes[p].new = DocBad
    /\ ReadSucceeded(p)

\* the process of a one-shot run has ended
RunOver == proc \notin {"start", "running"}

----------------------------------------------------------------------------
(* Properties of the order inside one cycle *)

\* pipeline p moves to the place `to` in this step
MovesTo(p, to) == pipes[p].pc # to /\ pipes'[p].pc = to

\* C31: one cycle is strictly sequential: the plan directives come first,
\* then the plan answers, then the content changes one by one in the order of
\* the diff, each after the one before it has committed or rolled back; a
\* cycle never has two generation calls in flight.
C31_CycleIsSequential ==
  [][\A p \in PipeIds :
       /\ pipes'[p].calls \in {0, 1}
       /\ MovesTo(p, "plan") => pipes[p].pc = "diff"
       /\ MovesTo(p, "planGen") => pipes[p].pc = "plan" /\ pipes[p].calls = 0
       /\ MovesTo(p, "answers") => pipes[p].pc \in {"plan", "planGen"}
       /\ MovesTo(p, "ansManifest") => pipes[p].pc = "answers"
       /\ MovesTo(p, "ansDoc") => pipes[p].pc \in {"answers", "ansManifest"}
       /\ MovesTo(p, "filter") => pipes[p].pc \in {"answers", "ansDoc"}
       /\ MovesTo(p, "change") =>
            \/ pipes[p].pc = "filter" /\ pipes'[p].ci = 1
            \/ pipes[p].pc = "next" /\ pipes'[p].ci = pipes[p].ci + 1
       /\ MovesTo(p, "assemble") => pipes[p].pc = "change"
       /\ MovesTo(p, "gen") => pipes[p].pc = "assemble" /\ pipes[p].calls = 0
       /\ MovesTo(p, "commit") => pipes[p].pc = "gen"
       /\ MovesTo(p, "next") => pipes[p].pc \in {"change", "assemble", "gen", "commit"}
       /\ (MovesTo(p, "done") /\ pipes[p].pc = "next") =>
            pipes[p].ci = Len(pipes[p].changes)]_vars

C31_Witness ==
  \E p \in PipeIds :
    /\ pipes[p].pc = "gen"
    /\ pipes[p].calls = 1
    /\ pipes[p].ci = 2
    /\ pipes[p].fails = {1}
    /\ pipes[p].new = DocAnswered
    /\ manifest.global.facts # <<>>

----------------------------------------------------------------------------
(* Properties of the rollback of several ops on one file *)

\* the completed ops on file f
CompletedOn(f) == {k \in Range(completed) : ops[k].file = f}

\* C32: when a failing call has several completed ops on the same file, the
\* undo of the completed ops in reverse order leaves that file as it was
\* before the call: the same bytes, or absent if it was absent (stated for the
\* calls in which no undo threw).
C32_SameFileOpsUndone ==
  (pc = "raised" /\ undoFailed = {})
  => \A f \in Files : Cardinality(CompletedOn(f)) >= 2 => disk[f] = disk0[f]

\* the rollback loop undoes the op at position rb in this step, and the undo
\* does not throw
UndoStep == pc = "rollback" /\ rb <= Len(completed) /\ rb' = rb + 1 /\ undoFailed' = undoFailed

\* C37: how a write op is undone depends only on whether its target existed
\* when the call applied it: the undo of a write whose target did not exist
\* deletes the file, whatever previousContent the op object came in with
\* (stated for the first op of the call on its file, whose target existed
\* exactly if the file existed before the call).
C37_UndoDependsOnExistenceOnly ==
  [][UndoStep =>
       LET k == RollbackOrder(completed)[rb]
           f == ops[k].file
       IN (/\ IsWrite(ops[k])
           /\ \A j \in CompletedOn(f) : k <= j
           /\ ~disk0[f].exists)
          => ~disk'[f].exists]_vars

----------------------------------------------------------------------------
(* Properties of the plan answers, the shared manifest and the cache *)

\* the manifest file holds every fact of fs in its global scope
FileHolds(fs) ==
  /\ manifestFile # Truncated
  /\ \A k \in 1..Len(fs) : fs[k] \in Range(manifestFile.doc.global.facts)

\* C36: the questions block is removed from a document only if the answers
\* were recorded as facts and are in the manifest file; without a loaded
\* manifest the answered block stays in the document.
C36_StripOnlyIfPersisted ==
  [][\A p \in PipeIds :
       (/\ pipes[p].pc = "ansDoc"
        /\ docs'[pipes[p].path] # docs[pipes[p].path]
        /\ docs'[pipes[p].path] = StripQuestions(pipes[p].new))
       => (env.loaded /\ FileHolds(AnswerFacts))]_vars

\* pipeline p is inside processChange
InProcessChange(p) == pipes[p].pc \in {"change", "assemble", "gen", "commit"}

\* C40: without a loaded manifest, processChange returns at once for every
\* change of every cycle: it never reaches assembleContext, the generation
\* call or the commit, and its step changes no file.
C40_NoManifestNoGeneration ==
  [][~env.loaded =>
       \A p \in PipeIds :
         /\ pipes'[p].pc \notin {"assemble", "gen", "commit"}
         /\ pipes'[p].gen = "none" /\ pipes'[p].wrote = 0
         /\ InProcessChange(p) =>
              /\ docs' = docs /\ manifestFile' = manifestFile /\ disk' = disk
              /\ pipes'[p].calls = 0
              /\ pipes'[p].pc \in {"change", "next"}]_vars

C40_Witness ==
  \E p \in PipeIds :
    /\ ~env.loaded
    /\ proc = "watching"
    /\ cur = p
    /\ pipes[p].pc = "next"
    /\ pipes[p].ci = 2
    /\ Len(pipes[p].changes) = 2
    /\ ~hist.generated

\* the facts of the manifest file's global scope
FileFacts(file) == IF file = Truncated THEN {} ELSE Range(file.doc.global.facts)

\* C34: a write of the manifest file keeps every fact the file held: the
\* restore of a failed processChange discards no fact that another pipeline
\* recorded after the snapshot was taken.
C34_PersistedFactsKept ==
  [][(manifestFile' # manifestFile /\ manifestFile' # Truncated)
       => FileFacts(manifestFile) \subseteq FileFacts(manifestFile')]_vars

\* the callback of an older change event of its path sets the cache in this
\* step, after the callback of the most recent event has set it
OlderSetsCacheLast(p) ==
  /\ pipes[p].pc = "done"
  /\ pipes'[p].pc = "free"
  /\ ~pipes[p].newest
  /\ pipes[p].path \in hist.newestDone

\* C35: the cache entry of a path, once the callbacks of the path have
\* settled, is the content read by the most recent change event of the path:
\* the callback of an older event that finishes later does not put its own
\* content in the place of the newer one.
C35_CacheHoldsNewestContent ==
  [][\A p \in PipeIds :
       OlderSetsCacheLast(p) => cache'[pipes[p].path] = cache[pipes[p].path]]_vars

\* no change event is pending and no callback is in flight
Quiescent == events.change = {} /\ \A p \in PipeIds : pipes[p].pc = "free"

\* the writeFile of the document by pipeline p succeeds in this step
WritesDocument(p) == pipes[p].pc = "ansDoc" /\ pipes'[p].pc = "filter"

\* C38: the watch loop does not feed itself: the cycle of a change event that
\* the tool's own rewrite caused does not rewrite the document again, so it
\* causes no further event, and without a user save the loop comes to rest
\* with no event pending and no callback in flight.
C38_WatchLoopComesToRest ==
  /\ [][\A p \in PipeIds : pipes[p].self => ~WritesDocument(p)]_vars
  /\ <>[]Quiescent

C38_Witness ==
  /\ Quiescent
  /\ docs[SpecFile] = StripQuestions(DocAnswered)
  /\ cache[SpecFile] = docs[SpecFile]
  /\ hist.wrote
  /\ hist.selfFed = {}
  /\ manifest.global.facts = AnswerFacts

----------------------------------------------------------------------------
(* Properties of SpecFileWatcher *)

\* C33: an event that comes while isUpdating is true never leads to an
\* emitted 'change', also when setUpdating(false) is called before the
\* debounce delay has elapsed.
C33_OwnWriteNeverEmitted ==
  \A k \in 1..Len(fw.emitted) : ~fw.emitted[k].onlyOwn

\* C39: after stop() has returned no 'change' is emitted, also for an event
\* that came before stop() and whose debounce delay had not yet elapsed.
C39_NoEmitAfterStop ==
  \A k \in 1..Len(fw.emitted) : ~fw.emitted[k].afterStop

====
